---- MODULE Spec2Model ----
(***************************************************************************)
(* Model of the Noir-friendly RDF encoder (src/encode/src/main.rs).        *)
(*                                                                         *)
(* Rust strings are TLA+ strings (Len, SubSeq and \o act on them as on     *)
(* sequences of characters; every character used here is ASCII, so byte    *)
(* offsets and character offsets coincide).  A BigUint is a little-endian  *)
(* sequence of limbs in radix 10^LimbDigits with no high zero limb (zero   *)
(* is the empty sequence); u64 values are held in the same form and their  *)
(* width is enforced where the code narrows (parse::<u64>).                *)
(*                                                                         *)
(* SHA-256 is the sha2 crate's function, not code of this repository: it   *)
(* is modelled as a fixed but arbitrary function from byte strings to      *)
(* 32-byte digests, chosen at Init (variable salt) and never changed.      *)
(***************************************************************************)
EXTENDS Integers, Sequences, FiniteSets, TLC

VARIABLES
    salt,                \* which SHA-256 stand-in this behaviour uses
    input,               \* the lines of the input file (nq_content.lines())
    pc,                  \* position of main
    lines,               \* main: the filtered lines
    i,                   \* main: index of the next line to process (0-based)
    all_field_elements,  \* main: the accumulated output sequence
    exit_status,         \* how main ended: "Ok", "Err" or "Panic"
    output_file,         \* content of the output path (Absent until written)
    writes,              \* number of fs::write calls made
    quad_line,            \* process_quad alone: the line under test
    quad_results,        \* process_quad alone: the result of call number k
    term,                \* encoders alone: the string under test
    term_fe,             \* encoders alone: term_to_field_element(term)
    numeric_fe,          \* encoders alone: encode_numeric_term(term)
    string_fe            \* encoders alone: encode_string_term(term)

mainVars == <<input, pc, lines, i, all_field_elements, exit_status,
              output_file, writes>>

quadVars == <<quad_line, quad_results>>

unitVars == <<term, term_fe, numeric_fe, string_fe>>

vars == <<salt, mainVars, quadVars, unitVars>>

----------------------------------------------------------------------------
(* Characters and bytes *)

Max(a, b) == IF a >= b THEN a ELSE b

CharAt(s, k) == SubSeq(s, k, k)

\* The printable ASCII characters in code order: 32 (space) to 95, and 97 to
\* 126 (the grave accent, 96, cannot be written in a TLA+ string).
AsciiLow ==
    " !\"#$%&'()*+,-./0123456789:;<=>?@ABCDEFGHIJKLMNOPQRSTUVWXYZ[\\]^_"

AsciiHigh == "abcdefghijklmnopqrstuvwxyz{|}~"

ByteTable ==
    [c \in {CharAt(AsciiLow, k) : k \in 1..Len(AsciiLow)} |->
        31 + (CHOOSE k \in 1..Len(AsciiLow) : CharAt(AsciiLow, k) = c)]
    @@
    [c \in {CharAt(AsciiHigh, k) : k \in 1..Len(AsciiHigh)} |->
        96 + (CHOOSE k \in 1..Len(AsciiHigh) : CharAt(AsciiHigh, k) = c)]

\* The function f on 1..n as the sequence of its values.
AsSeq(f) == SubSeq(f, 1, Len(f))

\* str::as_bytes: the UTF-8 bytes of an ASCII string.
as_bytes(s) ==
    AsSeq([k \in 1..Len(s) |->
              IF CharAt(s, k) = "\t" THEN 9 ELSE ByteTable[CharAt(s, k)]])

\* char::is_whitespace on the characters of the model.
is_whitespace(c) == c \in {" ", "\t"}

DecimalDigits == "0123456789"

is_digit(c) == c \in {CharAt(DecimalDigits, k) : k \in 1..10}

to_digit(c) == (CHOOSE k \in 1..10 : CharAt(DecimalDigits, k) = c) - 1

from_digit(d) == CharAt(DecimalDigits, d + 1)

----------------------------------------------------------------------------
(* Big naturals (num_bigint::BigUint) *)

LimbDigits == 4

Radix == 10 ^ LimbDigits

Normalize(x) ==
    LET used == {k \in 1..Len(x) : x[k] # 0}
    IN  IF used = {} THEN <<>>
        ELSE SubSeq(x, 1, CHOOSE k \in used : \A j \in used : j <= k)

RECURSIVE FromNat(_)
FromNat(n) == IF n = 0 THEN <<>> ELSE <<n % Radix>> \o FromNat(n \div Radix)

Limb(x, k) == IF k <= Len(x) THEN x[k] ELSE 0

\* The low n limbs of a are below the low n limbs of b: the borrow that
\* a - b carries into limb n + 1.
Borrows(a, b, n) ==
    IF n = 0 THEN FALSE
    ELSE IF Limb(a, n) # Limb(b, n) THEN Limb(a, n) < Limb(b, n)
    ELSE LET differ == {k \in 1..(n - 1) : Limb(a, k) # Limb(b, k)}
             top    == CHOOSE k \in differ : \A j \in differ : j <= k
         IN  differ # {} /\ Limb(a, top) < Limb(b, top)

\* a < b
Less(a, b) ==
    IF Len(a) # Len(b) THEN Len(a) < Len(b) ELSE Borrows(a, b, Len(a))

\* a - b for a >= b
Sub(a, b) ==
    Normalize(AsSeq([k \in 1..Len(a) |->
        (a[k] - Limb(b, k) - (IF Borrows(a, b, k - 1) THEN 1 ELSE 0) + Radix)
            % Radix]))

\* a % m (BigUint's Rem), m > 0
RECURSIVE Rem(_, _)
Rem(a, m) == IF Less(a, m) THEN a ELSE Rem(Sub(a, m), m)

\* x * k + c for small k and c
RECURSIVE MulAddFrom(_, _, _, _, _)
MulAddFrom(x, k, j, carry, acc) ==
    IF j > Len(x) THEN (IF carry = 0 THEN acc ELSE acc \o FromNat(carry))
    ELSE LET v == x[j] * k + carry
         IN  MulAddFrom(x, k, j + 1, v \div Radix, Append(acc, v % Radix))

MulAdd(x, k, c) == MulAddFrom(x, k, 1, c, <<>>)

\* The bytes of a SHA-256 digest.
DigestLen == 32

RECURSIVE Pow256Limbs(_)
Pow256Limbs(e) == IF e = 0 THEN <<1>> ELSE MulAdd(Pow256Limbs(e - 1), 256, 0)

\* 256^e for every byte position of a digest.
Pow256 == [e \in 0..DigestLen |-> Pow256Limbs(e)]

\* The least power of 256 that has a limb j.
MinPow ==
    [j \in 1..Len(Pow256[DigestLen]) |->
        CHOOSE e \in 0..DigestLen :
            /\ Len(Pow256[e]) >= j
            /\ \A f \in 0..(e - 1) : Len(Pow256[f]) < j]

\* The sum over bytes lo..hi of byte * (limb j of the byte's power of 256),
\* for bytes whose power has a limb j.
RECURSIVE ColumnSum(_, _, _, _)
ColumnSum(bytes, j, lo, hi) ==
    IF lo > hi THEN 0
    ELSE IF lo = hi THEN bytes[lo] * Pow256[Len(bytes) - lo][j]
    ELSE LET mid == (lo + hi) \div 2
         IN  ColumnSum(bytes, j, lo, mid) + ColumnSum(bytes, j, mid + 1, hi)

\* Carry propagation: every column hands what it holds above a limb to the
\* next column, until every column is a limb.  The value is below
\* Radix^Len(cols), so the last column never holds more than a limb.
RECURSIVE Carried(_)
Carried(cols) ==
    IF \A j \in 1..Len(cols) : cols[j] < Radix THEN cols
    ELSE Carried(AsSeq([j \in 1..Len(cols) |->
                  (cols[j] % Radix) + (IF j = 1 THEN 0 ELSE cols[j - 1] \div Radix)]))

\* BigUint::from_bytes_be: the sum of byte * 256^position, most significant
\* byte first.
from_bytes_be(bytes) ==
    LET nl   == Len(Pow256[Len(bytes)])
        cols == AsSeq([j \in 1..nl |->
                          ColumnSum(bytes, j, 1, Len(bytes) - MinPow[j])])
    IN  Normalize(Carried(cols))

\* The value of a short string of decimal digits.
RECURSIVE DecValue(_)
DecValue(s) ==
    IF s = "" THEN 0
    ELSE 10 * DecValue(SubSeq(s, 1, Len(s) - 1)) + to_digit(CharAt(s, Len(s)))

\* The value of a non-empty string of decimal digits of any length.
FromDecimal(s) ==
    LET n == Len(s)
        nl == (n + LimbDigits - 1) \div LimbDigits
    IN  Normalize(AsSeq([k \in 1..nl |->
            DecValue(SubSeq(s, Max(1, n - k * LimbDigits + 1),
                            n - (k - 1) * LimbDigits))]))

\* One limb as decimal text, zero-padded to width w (w = 0: no padding).
RECURSIVE LimbText(_, _)
LimbText(v, w) ==
    IF v = 0 /\ w <= 0 THEN ""
    ELSE LimbText(v \div 10, w - 1) \o from_digit(v % 10)

\* Limbs hi down to lo as decimal text, every limb zero-padded.
RECURSIVE LimbsText(_, _, _)
LimbsText(x, lo, hi) ==
    IF lo > hi THEN ""
    ELSE IF lo = hi THEN LimbText(x[lo], LimbDigits)
    ELSE LET mid == (lo + hi) \div 2
         IN  LimbsText(x, mid + 1, hi) \o LimbsText(x, lo, mid)

\* BigUint / u64 to_string: canonical decimal, no leading zero, "0" for zero.
to_string(x) ==
    IF x = <<>> THEN "0"
    ELSE LimbText(x[Len(x)], 0) \o LimbsText(x, 1, Len(x) - 1)

AllDigits(s) == \A k \in 1..Len(s) : is_digit(CharAt(s, k))

\* The digits of str::parse for an unsigned type: one leading '+' is
\* accepted when digits follow; "" when the text is not such a number.
UnsignedDigits(s) ==
    LET body == IF Len(s) > 1 /\ CharAt(s, 1) = "+" THEN SubSeq(s, 2, Len(s)) ELSE s
    IN  IF body # "" /\ AllDigits(body) THEN body ELSE ""

\* str::parse::<BigUint>
parse_BigUint(s) ==
    IF UnsignedDigits(s) = "" THEN [ok |-> FALSE, num |-> <<>>]
    ELSE [ok |-> TRUE, num |-> FromDecimal(UnsignedDigits(s))]

u64_MAX == FromDecimal("18446744073709551615")

\* str::parse::<u64>: Err on anything but digits and on overflow of 64 bits.
parse_u64(s) ==
    LET p == parse_BigUint(s)
    IN  IF p.ok /\ ~Less(u64_MAX, p.num) THEN p ELSE [ok |-> FALSE, num |-> <<>>]

----------------------------------------------------------------------------
(* String operations of the Rust standard library used by the encoder *)

None == -1

unwrap_or(opt, default) == IF opt = None THEN default ELSE opt

starts_with(s, p) == Len(s) >= Len(p) /\ SubSeq(s, 1, Len(p)) = p

contains(s, p) ==
    \E k \in 1..(Len(s) - Len(p) + 1) : SubSeq(s, k, k + Len(p) - 1) = p

\* str::find(char): the 0-based offset of the first occurrence, or None.
find(s, c) ==
    IF \E k \in 1..Len(s) : CharAt(s, k) = c
    THEN (CHOOSE k \in 1..Len(s) :
              CharAt(s, k) = c /\ \A j \in 1..(k - 1) : CharAt(s, j) # c) - 1
    ELSE None

\* Whether the slice s[from..to] (0-based, end exclusive) is in range.
slice_in_range(s, from, to) == 0 <= from /\ from <= to /\ to <= Len(s)

\* s[from..to]
slice(s, from, to) == SubSeq(s, from + 1, to)

RECURSIVE trim_start_matches(_, _)
trim_start_matches(s, p) ==
    IF starts_with(s, p) THEN trim_start_matches(SubSeq(s, Len(p) + 1, Len(s)), p)
    ELSE s

RECURSIVE trim_end_matches(_, _)
trim_end_matches(s, p) ==
    IF Len(s) >= Len(p) /\ SubSeq(s, Len(s) - Len(p) + 1, Len(s)) = p
    THEN trim_end_matches(SubSeq(s, 1, Len(s) - Len(p)), p)
    ELSE s

\* str::trim_matches(char): every leading and every trailing occurrence.
trim_matches(s, c) == trim_end_matches(trim_start_matches(s, c), c)

\* str::trim: leading and trailing whitespace removed.
trim(s) ==
    IF \A k \in 1..Len(s) : is_whitespace(CharAt(s, k)) THEN ""
    ELSE LET first == CHOOSE k \in 1..Len(s) :
                 /\ ~is_whitespace(CharAt(s, k))
                 /\ \A j \in 1..(k - 1) : is_whitespace(CharAt(s, j))
             last == CHOOSE k \in 1..Len(s) :
                 /\ ~is_whitespace(CharAt(s, k))
                 /\ \A j \in (k + 1)..Len(s) : is_whitespace(CharAt(s, j))
         IN  SubSeq(s, first, last)

\* str::split_whitespace: the maximal runs of non-whitespace, in order.
TokenStarts(s) ==
    {k \in 1..Len(s) : /\ ~is_whitespace(CharAt(s, k))
                       /\ (k = 1 \/ is_whitespace(CharAt(s, k - 1)))}

TokenEnds(s) ==
    {k \in 1..Len(s) : /\ ~is_whitespace(CharAt(s, k))
                       /\ (k = Len(s) \/ is_whitespace(CharAt(s, k + 1)))}

\* The n-th smallest member of a set of positions.
NthOf(S, n) == CHOOSE k \in S : Cardinality({j \in S : j < k}) = n - 1

split_whitespace(s) ==
    LET starts == TokenStarts(s)
        ends   == TokenEnds(s)
    IN  AsSeq([n \in 1..Cardinality(starts) |->
                  SubSeq(s, NthOf(starts, n), NthOf(ends, n))])

----------------------------------------------------------------------------
(* SHA-256 (sha2 crate) *)

\* Digests the stand-in can return: 2^256 - 1 (several moduli above the
\* field), the bytes of the modulus itself, and the bytes 1, 2, ..., 32
\* (below the modulus, and different when read in the other byte order).
DigestSamples ==
    << [k \in 1..DigestLen |-> 255],
       <<48, 100, 78, 114, 225, 49, 160, 41, 184, 80, 69, 182, 129, 129, 88, 93,
         40, 51, 232, 72, 121, 185, 112, 145, 67, 225, 245, 147, 240, 0, 0, 1>>,
       [k \in 1..DigestLen |-> k] >>

Salts == 0..(Len(DigestSamples) - 1)

RECURSIVE Fingerprint(_, _, _)
Fingerprint(bytes, lo, hi) ==
    IF lo > hi THEN 0
    ELSE IF lo = hi THEN (bytes[lo] * lo) % 1009
    ELSE LET mid == (lo + hi) \div 2
         IN  (Fingerprint(bytes, lo, mid) + Fingerprint(bytes, mid + 1, hi)) % 1009

\* Sha256::new(); update(bytes); finalize(): a function of the bytes alone.
Sha256(bytes) ==
    DigestSamples[((Fingerprint(bytes, 1, Len(bytes)) + Len(bytes) + salt)
                       % Len(DigestSamples)) + 1]

----------------------------------------------------------------------------
(* NoirFriendlyEncoder *)

BN254_SCALAR_MODULUS ==
    "21888242871839275222246405745257275088548364400416034343698204186575808495617"

\* NoirFriendlyEncoder::new: self.modulus
modulus == parse_BigUint(BN254_SCALAR_MODULUS).num

SMALL_NUMBER_LIMIT == 1000000

\* Variant of encode_string_term that omits the modular reduction.
encode_string_term_unreduced(term_str) ==
    to_string(from_bytes_be(Sha256(as_bytes(term_str))))

encode_string_term(term_str) ==
    LET hash_bytes == Sha256(as_bytes(term_str))
        hash_value == from_bytes_be(hash_bytes)
        field_element == Rem(hash_value, modulus)
    IN  to_string(field_element)

\* Variant of encode_numeric_term that hashes every value.
encode_numeric_term_hashing(value) == encode_string_term(value)

encode_numeric_term(value) ==
    LET parsed == parse_u64(value)
    IN  IF parsed.ok
        THEN to_string(Rem(parsed.num, modulus))
        ELSE encode_string_term(value)

\* Variant of term_to_field_element whose threshold test is num <= 1000000.
term_to_field_element_inclusive(term_str, term_type) ==
    LET parsed == parse_u64(term_str)
    IN  IF parsed.ok /\ ~Less(FromNat(SMALL_NUMBER_LIMIT), parsed.num)
        THEN to_string(parsed.num)
        ELSE encode_string_term(term_str)

term_to_field_element(term_str, term_type) ==
    LET parsed == parse_u64(term_str)
    IN  IF parsed.ok /\ Less(parsed.num, FromNat(SMALL_NUMBER_LIMIT))
        THEN to_string(parsed.num)
        ELSE encode_string_term(term_str)

\* process_quad, line 78
quad_parts(quad_str) == split_whitespace(trim(quad_str))

\* Variant of literal_end_quote with unwrap_or(object_raw.len()).
literal_end_quote_past_end(object_raw) ==
    unwrap_or(find(slice(object_raw, 1, Len(object_raw)), "\""),
              Len(object_raw)) + 1

\* process_quad, line 92: the offset in object_raw just past the literal body.
literal_end_quote(object_raw) ==
    unwrap_or(find(slice(object_raw, 1, Len(object_raw)), "\""),
              Len(object_raw) - 1) + 1

\* process_quad, line 97
datatype_of(token) ==
    trim_matches(trim_matches(trim_start_matches(token, "^^"), "<"), ">")

\* Variant of is_integer_datatype that knows "integer" only.
is_integer_datatype_exact(datatype) == contains(datatype, "integer")

\* process_quad, line 98
is_integer_datatype(datatype) ==
    contains(datatype, "integer") \/ contains(datatype, "int")

\* process_quad, lines 96 to 106: the (object, numeric_value) pair of a literal.
literal_object(parts, literal_value) ==
    IF Len(parts) > 3 /\ starts_with(parts[4], "^^")
    THEN LET datatype == datatype_of(parts[4])
         IN  IF is_integer_datatype(datatype)
             THEN <<literal_value \o "^^" \o datatype, literal_value>>
             ELSE <<literal_value \o "^^" \o datatype, "0">>
    ELSE <<literal_value, "0">>

\* process_quad, lines 90 to 111: [panic, object, numeric_value].
object_and_numeric(parts) ==
    LET object_raw == parts[3]
    IN  IF starts_with(object_raw, "\"")
        THEN LET end_quote == literal_end_quote(object_raw)
             IN  IF ~slice_in_range(object_raw, 1, end_quote)
                 THEN [panic |-> TRUE, object |-> "", numeric_value |-> ""]
                 ELSE LET pair == literal_object(parts, slice(object_raw, 1, end_quote))
                      IN  [panic |-> FALSE, object |-> pair[1],
                           numeric_value |-> pair[2]]
        ELSE [panic |-> FALSE,
              object |-> trim_matches(trim_matches(object_raw, "<"), ">"),
              numeric_value |-> "0"]

\* process_quad, line 114
graph_of(parts) == ""

\* Variant of process_quad that encodes quad_index as the graph.
process_quad_indexed(quad_str, quad_index) ==
    LET parts == quad_parts(quad_str)
    IN  IF Len(parts) < 3
        THEN [kind |-> "Err", elements |-> <<>>]
        ELSE LET on == object_and_numeric(parts)
             IN  IF on.panic
                 THEN [kind |-> "Panic", elements |-> <<>>]
                 ELSE [kind |-> "Ok",
                       elements |->
                           << term_to_field_element(
                                  trim_matches(trim_matches(parts[1], "<"), ">"),
                                  "Subject"),
                              term_to_field_element(
                                  trim_matches(trim_matches(parts[2], "<"), ">"),
                                  "Predicate"),
                              term_to_field_element(on.object, "Object"),
                              term_to_field_element(to_string(FromNat(quad_index)),
                                                    "Graph"),
                              encode_numeric_term(on.numeric_value) >>]

\* Result<Vec<String>, _> of process_quad, or a panic.
process_quad(quad_str, quad_index) ==
    LET parts == quad_parts(quad_str)
    IN  IF Len(parts) < 3
        THEN [kind |-> "Err", elements |-> <<>>]
        ELSE LET subject == trim_matches(trim_matches(parts[1], "<"), ">")
                 predicate == trim_matches(trim_matches(parts[2], "<"), ">")
                 on == object_and_numeric(parts)
                 graph == graph_of(parts)
             IN  IF on.panic
                 THEN [kind |-> "Panic", elements |-> <<>>]
                 ELSE [kind |-> "Ok",
                       elements |->
                           << term_to_field_element(subject, "Subject"),
                              term_to_field_element(predicate, "Predicate"),
                              term_to_field_element(on.object, "Object"),
                              term_to_field_element(graph, "Graph"),
                              encode_numeric_term(on.numeric_value) >>]

----------------------------------------------------------------------------
(* main *)

MaxLines == 2

\* Lines an input file is made of.
CandidateLines ==
    { "<s> <p> \"42\" ^^<xsd:integer> .",
      "7 <p> <o> <g> .",
      " \t",
      "# comment",
      "<s> <p>",
      " #x <p> \"" }

RECURSIVE InputsOfLen(_)
InputsOfLen(n) ==
    IF n = 0 THEN {<<>>}
    ELSE {Append(f, l) : f \in InputsOfLen(n - 1), l \in CandidateLines}

Inputs == UNION {InputsOfLen(n) : n \in 0..MaxLines}

Absent == [exists |-> FALSE, content |-> <<>>]

Unset == "unset"

\* main, line 153: the filter over nq_content.lines()
keep_line(line) == trim(line) # "" /\ ~starts_with(line, "#")

\* main, lines 176 to 183: TRUE when the verification loop does not panic.
range_verified(elements) ==
    \A k \in 1..Len(elements) :
        LET fe_value == parse_BigUint(elements[k])
        IN  fe_value.ok /\ Less(fe_value.num, modulus)

QuadIdle == quad_line = "" /\ quad_results = <<>>

UnitIdle ==
    term = "" /\ term_fe = Unset /\ numeric_fe = Unset /\ string_fe = Unset

MainIdle ==
    /\ input = <<>>
    /\ pc = "idle"
    /\ lines = <<>>
    /\ i = 0
    /\ all_field_elements = <<>>
    /\ exit_status = "idle"
    /\ output_file = Absent
    /\ writes = 0

Init ==
    /\ salt \in Salts
    /\ input \in Inputs
    /\ pc = "start"
    /\ lines = <<>>
    /\ i = 0
    /\ all_field_elements = <<>>
    /\ exit_status = "running"
    /\ output_file = Absent
    /\ writes = 0
    /\ QuadIdle
    /\ UnitIdle

\* main, lines 151 to 159
ReadInput ==
    /\ pc = "start"
    /\ lines' = SelectSeq(input, keep_line)
    /\ i' = 0
    /\ all_field_elements' = <<>>
    /\ pc' = "encode"
    /\ UNCHANGED <<salt, input, exit_status, output_file, writes, quadVars,
                   unitVars>>

\* main, line 151: fs::read_to_string fails and main returns the error.
ReadError ==
    /\ pc = "start"
    /\ pc' = "exit"
    /\ exit_status' = "Err"
    /\ UNCHANGED <<salt, input, lines, i, all_field_elements, output_file,
                   writes, quadVars, unitVars>>

\* Variant of the encoding loop that skips a line process_quad rejects.
ProcessQuadStep_skip ==
    /\ pc = "encode"
    /\ i < Len(lines)
    /\ LET result == process_quad(lines[i + 1], i)
       IN  IF result.kind = "Ok"
           THEN /\ all_field_elements' = all_field_elements \o result.elements
                /\ i' = i + 1
                /\ UNCHANGED <<pc, exit_status>>
           ELSE /\ i' = i + 1
                /\ UNCHANGED <<pc, exit_status, all_field_elements>>
    /\ UNCHANGED <<salt, input, lines, output_file, writes, quadVars, unitVars>>

\* Variant of the encoding loop that puts each quad's elements first.
ProcessQuadStep_prepend ==
    /\ pc = "encode"
    /\ i < Len(lines)
    /\ LET result == process_quad(lines[i + 1], i)
       IN  IF result.kind = "Ok"
           THEN /\ all_field_elements' = result.elements \o all_field_elements
                /\ i' = i + 1
                /\ UNCHANGED <<pc, exit_status>>
           ELSE /\ pc' = "exit"
                /\ exit_status' = result.kind
                /\ UNCHANGED <<all_field_elements, i>>
    /\ UNCHANGED <<salt, input, lines, output_file, writes, quadVars, unitVars>>

\* main, lines 161 to 171: one iteration of the encoding loop
ProcessQuadStep ==
    /\ pc = "encode"
    /\ i < Len(lines)
    /\ LET result == process_quad(lines[i + 1], i)
       IN  IF result.kind = "Ok"
           THEN /\ all_field_elements' = all_field_elements \o result.elements
                /\ i' = i + 1
                /\ UNCHANGED <<pc, exit_status>>
           ELSE /\ pc' = "exit"
                /\ exit_status' = result.kind
                /\ UNCHANGED <<all_field_elements, i>>
    /\ UNCHANGED <<salt, input, lines, output_file, writes, quadVars, unitVars>>

\* main, lines 175 to 184: the verification loop
VerifyRange ==
    /\ pc = "encode"
    /\ i = Len(lines)
    /\ IF range_verified(all_field_elements)
       THEN pc' = "write" /\ UNCHANGED exit_status
       ELSE pc' = "exit" /\ exit_status' = "Panic"
    /\ UNCHANGED <<salt, input, lines, i, all_field_elements, output_file,
                   writes, quadVars, unitVars>>

\* main, lines 186 to 212: serialize and write; the file holds the sequence.
WriteOutput ==
    /\ pc = "write"
    /\ output_file' = [exists |-> TRUE, content |-> all_field_elements]
    /\ writes' = writes + 1
    /\ pc' = "exit"
    /\ exit_status' = "Ok"
    /\ UNCHANGED <<salt, input, lines, i, all_field_elements, quadVars,
                   unitVars>>

Next ==
    ReadInput \/ ReadError \/ ProcessQuadStep \/ VerifyRange \/ WriteOutput

Spec == Init /\ [][Next]_vars

----------------------------------------------------------------------------
(* process_quad applied to one line, called repeatedly *)

MaxObjectLen == 2

MaxCalls == 2

ObjectAlphabet == {"\"", "4", "<"}

RECURSIVE ObjectsOfLen(_)
ObjectsOfLen(n) ==
    IF n = 0 THEN {""}
    ELSE {s \o c : s \in ObjectsOfLen(n - 1), c \in ObjectAlphabet}

ObjectTokens == UNION {ObjectsOfLen(n) : n \in 1..MaxObjectLen}

QuadSuffixes ==
    { "", " .", " <g> .",
      " ^^<http://www.w3.org/2001/XMLSchema#integer> .",
      " ^^<xsd:string> <g> ." }

AttachedDatatypeLine ==
    "<http://s> <http://p> \"42\"^^<http://www.w3.org/2001/XMLSchema#integer> ."

SeparateDatatypeLine ==
    "<http://s> <http://p> \"42\" ^^<http://www.w3.org/2001/XMLSchema#integer> ."

SpecialQuadLines ==
    { AttachedDatatypeLine, SeparateDatatypeLine,
      "", "<s>", "<s> <p>", " <s>\t<p> ", "<s> <p> <o> <g> .",
      "7 \t_:b\t\"ab\"cd\" ^^^^<<point>> <g> .",
      "<s> <p> \"18446744073709551616\" ^^<xsd:int> ." }

QuadLines ==
    SpecialQuadLines
    \cup {"<s> <p> " \o o \o x : o \in ObjectTokens, x \in QuadSuffixes}

InitQuad ==
    /\ salt \in Salts
    /\ quad_line \in QuadLines
    /\ quad_results = <<>>
    /\ MainIdle
    /\ UnitIdle

\* encoder.process_quad(quad_str, quad_index), quad_index counting the calls
CallProcessQuad ==
    /\ Len(quad_results) < MaxCalls
    /\ quad_results' = Append(quad_results, process_quad(quad_line, Len(quad_results)))
    /\ UNCHANGED <<salt, quad_line, mainVars, unitVars>>

NextQuad == CallProcessQuad

SpecQuad == InitQuad /\ [][NextQuad]_vars

----------------------------------------------------------------------------
(* The encoder's functions applied to one string *)

MaxTermLen == 3

UnitAlphabet == {"0", "7", "+", "x"}

RECURSIVE StringsOfLen(_)
StringsOfLen(n) ==
    IF n = 0 THEN {""}
    ELSE {s \o c : s \in StringsOfLen(n - 1), c \in UnitAlphabet}

BoundaryTerms ==
    { "42", "123", "999999", "1000000", "0999999", "+999999", "not_a_number",
      "18446744073709551615", "18446744073709551616",
      "0000000000000000000000042", "http://s" }

UnitTerms == BoundaryTerms \cup UNION {StringsOfLen(n) : n \in 0..MaxTermLen}

InitUnit ==
    /\ salt \in Salts
    /\ term \in UnitTerms
    /\ term_fe = Unset
    /\ numeric_fe = Unset
    /\ string_fe = Unset
    /\ MainIdle
    /\ QuadIdle

CallTermToFieldElement ==
    /\ term_fe = Unset
    /\ term_fe' = term_to_field_element(term, "Subject")
    /\ UNCHANGED <<salt, mainVars, quadVars, term, numeric_fe, string_fe>>

CallEncodeNumericTerm ==
    /\ numeric_fe = Unset
    /\ numeric_fe' = encode_numeric_term(term)
    /\ UNCHANGED <<salt, mainVars, quadVars, term, term_fe, string_fe>>

CallEncodeStringTerm ==
    /\ string_fe = Unset
    /\ string_fe' = encode_string_term(term)
    /\ UNCHANGED <<salt, mainVars, quadVars, term, term_fe, numeric_fe>>

NextUnit == CallTermToFieldElement \/ CallEncodeNumericTerm \/ CallEncodeStringTerm

SpecUnit == InitUnit /\ [][NextUnit]_vars

----------------------------------------------------------------------------
(* Terms in which the properties are stated *)

\* Canonical decimal text: digits only, no leading zero except "0" itself.
IsCanonicalDecimal(s) ==
    s # "" /\ AllDigits(s) /\ (Len(s) > 1 => CharAt(s, 1) # "0")

\* a < b as numbers, for canonical decimal texts a and b.
DecimalLess(a, b) ==
    IF Len(a) # Len(b) THEN Len(a) < Len(b)
    ELSE \E k \in 1..Len(a) :
            /\ SubSeq(a, 1, k - 1) = SubSeq(b, 1, k - 1)
            /\ to_digit(CharAt(a, k)) < to_digit(CharAt(b, k))

\* A FieldElement: canonical decimal text of a value below the modulus.
InField(s) == IsCanonicalDecimal(s) /\ DecimalLess(s, BN254_SCALAR_MODULUS)

\* The text of a non-negative integer: digits, after at most one '+'.
NatDigits(s) ==
    IF Len(s) > 1 /\ CharAt(s, 1) = "+" THEN SubSeq(s, 2, Len(s)) ELSE s

IsNatText(s) == NatDigits(s) # "" /\ AllDigits(NatDigits(s))

\* The canonical decimal text of the integer written by s.
Canonical(s) ==
    LET d == NatDigits(s)
    IN  IF \A k \in 1..Len(d) : CharAt(d, k) = "0" THEN "0"
        ELSE SubSeq(d, CHOOSE k \in 1..Len(d) :
                           /\ CharAt(d, k) # "0"
                           /\ \A j \in 1..(k - 1) : CharAt(d, j) = "0",
                    Len(d))

IsBelowThreshold(s) == IsNatText(s) /\ DecimalLess(Canonical(s), "1000000")

FitsU64(s) ==
    IsNatText(s) /\ ~DecimalLess("18446744073709551615", Canonical(s))

\* The decimal value modulo Modulus of each digest of DigestSamples, read as
\* a big-endian 256-bit integer.
DigestFieldText ==
    << "6350874878119819312338956282401532410528162663560392320966563075034087161850",
       "0",
       "455867356320691211509944977504407603390036387149619137164185182714736811808" >>

\* The FieldElement of the digest of s.
DigestField(s) ==
    DigestFieldText[CHOOSE k \in 1..Len(DigestSamples) :
                        DigestSamples[k] = Sha256(as_bytes(s))]

\* Blank lines and lines beginning with '#'.
IsSkipped(line) ==
    \/ \A k \in 1..Len(line) : is_whitespace(CharAt(line, k))
    \/ (Len(line) > 0 /\ CharAt(line, 1) = "#")

\* The number of whitespace-delimited tokens of a line.
TokenCount(line) ==
    Cardinality({k \in 1..Len(line) :
                    /\ ~is_whitespace(CharAt(line, k))
                    /\ (k = 1 \/ is_whitespace(CharAt(line, k - 1)))})

AcceptedLines == SelectSeq(input, LAMBDA l : ~IsSkipped(l))

HasShortLine ==
    \E k \in 1..Len(AcceptedLines) : TokenCount(AcceptedLines[k]) < 3

\* Elements 5k-4 .. 5k of a flat sequence.
Tuple(seq, k) == SubSeq(seq, 5 * k - 4, 5 * k)

\* The body of a literal token: what follows the opening quote, up to the
\* next quote when there is one.
LiteralBody(token) ==
    LET rest == SubSeq(token, 2, Len(token))
    IN  IF \E k \in 1..Len(rest) : CharAt(rest, k) = "\""
        THEN SubSeq(rest, 1,
                    (CHOOSE k \in 1..Len(rest) :
                        /\ CharAt(rest, k) = "\""
                        /\ \A j \in 1..(k - 1) : CharAt(rest, j) # "\"") - 1)
        ELSE rest

\* A token without its leading '^' and '<' and its trailing '>'.
Bare(token) ==
    LET inner == {k \in 1..Len(token) :
                     /\ \E j \in 1..k : CharAt(token, j) \notin {"^", "<"}
                     /\ \E j \in k..Len(token) : CharAt(token, j) # ">"}
    IN  IF inner = {} THEN ""
        ELSE SubSeq(token, CHOOSE k \in inner : \A j \in inner : k <= j,
                           CHOOSE k \in inner : \A j \in inner : k >= j)

IsLiteralToken(token) == Len(token) > 0 /\ CharAt(token, 1) = "\""

\* The literal of the line is followed by a datatype token.
HasDatatypeToken(parts) ==
    /\ IsLiteralToken(parts[3])
    /\ Len(parts) >= 4
    /\ Len(parts[4]) >= 2
    /\ SubSeq(parts[4], 1, 2) = "^^"

\* The graph of a line: the term after the object and its datatype token.
GraphTerm(parts) ==
    LET at == IF HasDatatypeToken(parts) THEN 5 ELSE 4
    IN  IF Len(parts) >= at /\ parts[at] # "." THEN Bare(parts[at]) ELSE ""

----------------------------------------------------------------------------
(* Properties *)

\* C1: every element appended to the output sequence is a canonical decimal
\* integer v with 0 <= v < Modulus, so the verification loop of main never
\* panics and what is written is in range too.
C1_RangeInvariant ==
    /\ \A k \in 1..Len(all_field_elements) : InField(all_field_elements[k])
    /\ \A k \in 1..Len(output_file.content) : InField(output_file.content[k])
    /\ exit_status # "Panic"

\* C1 witness: the verification loop has passed over an output that holds
\* the reduction of a digest above the modulus.
C1_Witness ==
    /\ pc = "write"
    /\ \E k \in 1..Len(all_field_elements) :
           all_field_elements[k] = DigestFieldText[1]

\* C2 (as claimed): for the line whose literal and ^^datatype form one
\* token, the fifth element is encode_numeric("42").
C2_AttachedDatatype ==
    \A k \in 1..Len(quad_results) :
        quad_line = AttachedDatatypeLine
            => /\ quad_results[k].kind = "Ok"
               /\ quad_results[k].elements[5] = encode_numeric_term("42")

\* C3: a non-skipped line with fewer than 3 tokens makes the run end with
\* the error and leaves the output absent; the output is written at most
\* once, and only after every non-skipped line was encoded and every
\* element is in range.
C3_AllOrNothing ==
    /\ writes <= 1
    /\ output_file.exists <=> writes = 1
    /\ HasShortLine =>
           /\ pc # "write"
           /\ ~output_file.exists
           /\ pc = "exit" => exit_status = "Err"
    /\ (pc = "write" \/ output_file.exists) =>
           /\ i = Len(AcceptedLines)
           /\ Len(all_field_elements) = 5 * Len(AcceptedLines)
           /\ \A k \in 1..Len(all_field_elements) : InField(all_field_elements[k])
    /\ output_file.exists => output_file.content = all_field_elements

\* C3 witness: the run has ended with the error at a short line that follows
\* an encoded line, and nothing was written.
C3_Witness ==
    /\ pc = "exit"
    /\ exit_status = "Err"
    /\ i = 1
    /\ Len(all_field_elements) = 5
    /\ ~output_file.exists

\* C4: blank lines and lines beginning with '#' contribute nothing; the
\* output of a successful run has 5 elements per accepted line, elements
\* 5k-4 .. 5k being the tuple of the k-th accepted line, in input order.
C4_OrderPreserved ==
    /\ pc \in {"encode", "write"} => Len(all_field_elements) = 5 * i
    /\ output_file.exists =>
           /\ Len(output_file.content) = 5 * Len(AcceptedLines)
           /\ \A k \in 1..Len(AcceptedLines) :
                  Tuple(output_file.content, k)
                      = process_quad(AcceptedLines[k], k - 1).elements

\* C4 witness: an output written for two accepted lines with different
\* tuples.
C4_Witness ==
    /\ output_file.exists
    /\ Len(AcceptedLines) = 2
    /\ Tuple(output_file.content, 1) # Tuple(output_file.content, 2)

\* C5 (as claimed): every text of a non-negative integer n, of any
\* magnitude, is encoded by encode_numeric as n mod Modulus.
C5_AnyMagnitude ==
    (numeric_fe # Unset /\ IsNatText(term)
         /\ DecimalLess(Canonical(term), BN254_SCALAR_MODULUS))
        => numeric_fe = Canonical(term)

\* C5 (amended): a text of a non-negative integer n < 2^64 is encoded by
\* encode_numeric as n mod Modulus, which is n; every other string, the
\* decimal integers from 2^64 on included, is encoded as its digest modulo
\* Modulus, which is what encode_term returns for it.
C5_NumericPreservation ==
    numeric_fe # Unset =>
        IF FitsU64(term)
        THEN /\ numeric_fe = Canonical(term)
             /\ DecimalLess(numeric_fe, BN254_SCALAR_MODULUS)
        ELSE /\ numeric_fe = DigestField(term)
             /\ term_fe # Unset => numeric_fe = term_fe

\* C5 witness: encode_numeric and encode_term have both been applied to
\* 2^64, one above the largest integer encoded by value.
C5_Witness ==
    /\ term = "18446744073709551616"
    /\ numeric_fe # Unset
    /\ term_fe = numeric_fe

\* C6: encode_term returns the integer itself, in canonical decimal, exactly
\* for the texts of non-negative integers below 1,000,000; every other
\* string, "1000000" included, is encoded as its digest, read big-endian,
\* modulo Modulus.
C6_SmallIntegerFastPath ==
    term_fe # Unset =>
        IF IsBelowThreshold(term)
        THEN term_fe = Canonical(term)
        ELSE term_fe = DigestField(term)

\* C6 witness: encode_term was applied to the threshold itself.
C6_Witness == term = "1000000" /\ term_fe # Unset

\* C7 (as claimed): the fourth element is encode_term of the graph term of
\* the line, the empty string when the line has none.
C7_GraphSlot ==
    \A k \in 1..Len(quad_results) :
        quad_results[k].kind = "Ok"
            => quad_results[k].elements[4]
                   = term_to_field_element(GraphTerm(quad_parts(quad_line)), "Graph")

C9_ObjectAndNumeric ==
    \A k \in 1..Len(quad_results) :
        quad_results[k].kind = "Ok" =>
            LET parts == quad_parts(quad_line)
                body == LiteralBody(parts[3])
                datatype == Bare(parts[4])
                elements == quad_results[k].elements
            IN  IF HasDatatypeToken(parts)
                THEN /\ elements[3]
                            = term_to_field_element(body \o "^^" \o datatype, "Object")
                     /\ elements[5] = IF contains(datatype, "int")
                                      THEN encode_numeric_term(body)
                                      ELSE "0"
                ELSE elements[5] = "0"

\* C9 witness: an integer-typed literal was encoded and its value kept.
C9_Witness ==
    /\ quad_line = SeparateDatatypeLine
    /\ Len(quad_results) > 0
    /\ quad_results[1].kind = "Ok"
    /\ quad_results[1].elements[5] = "42"

\* C10: process_quad returns the error exactly for lines of fewer than 3
\* tokens and 5 elements otherwise, and never panics; a literal token with
\* no closing quote has as body everything after its opening quote.
C10_Total ==
    \A k \in 1..Len(quad_results) :
        LET result == quad_results[k]
            parts == quad_parts(quad_line)
        IN  /\ result.kind # "Panic"
            /\ result.kind = "Err" <=> TokenCount(quad_line) < 3
            /\ result.kind = "Ok" =>
                   /\ Len(result.elements) = 5
                   /\ (/\ IsLiteralToken(parts[3])
                       /\ ~contains(SubSeq(parts[3], 2, Len(parts[3])), "\"")
                       /\ ~HasDatatypeToken(parts))
                          => result.elements[3]
                                 = term_to_field_element(
                                       SubSeq(parts[3], 2, Len(parts[3])), "Object")

\* C10 witness: the object token is the single character '"'.
C10_Witness ==
    /\ quad_line = "<s> <p> \""
    /\ Len(quad_results) > 0
    /\ quad_results[1].kind = "Ok"

====
